---- MODULE Spec2Model ----
(***************************************************************************)
(* Model of the action interpretation and validation pipeline of the       *)
(* Personal Data Visualization Expert: safe_json_parse and                 *)
(* parse_llm_response (llm_handler.py), prepare_data_for_visualization     *)
(* (data_processor.py), generate_visualization,                            *)
(* generate_summary_statistics and create_action_from_ui (visualizer.py),  *)
(* and the pipeline of main (app.py).                                      *)
(*                                                                         *)
(* Python values are tagged records; a Python dict is a function from its  *)
(* keys; a DataFrame is a record of its column names, dtypes, index and    *)
(* column data, held in a heap of objects so that aliasing and in-place    *)
(* column assignment are visible.                                          *)
(***************************************************************************)
EXTENDS Integers, Sequences, FiniteSets, TLC

(* ---------------------------------------------------------------- bounds *)

\* Most rows of an uploaded file.
MaxRows == 2

\* Most conditions of a filter list in a model response.
MaxFilters == 2

\* Most segments (prose, braces, fences, objects) of a response text.
MaxSegs == 4

(* --------------------------------------------------------- Python values *)

\* Python's None.
NONE == [t |-> "none"]

Str(s) == [t |-> "str", s |-> s]

Num(n) == [t |-> "num", n |-> n]

\* A missing value of a column (NaN, or NaT in a datetime column).
NaN == [t |-> "nan"]

\* A timestamp, as its day number.
Ts(d) == [t |-> "ts", d |-> d]

List(l) == [t |-> "list", l |-> l]

Dict(d) == [t |-> "dict", d |-> d]

\* A reference to a DataFrame object of the heap.
Ref(n) == [t |-> "ref", n |-> n]

IsStr(v) == v.t = "str"

IsNum(v) == v.t = "num"

IsList(v) == v.t = "list"

IsDict(v) == v.t = "dict"

\* The empty dict {}.
EmptyDict == [k \in {} |-> NONE]

\* bool(v): None, "", 0, [] and {} are false.
Truthy(v) ==
    CASE v.t = "none" -> FALSE
      [] v.t = "str" -> v.s # ""
      [] v.t = "num" -> v.n # 0
      [] v.t = "list" -> Len(v.l) > 0
      [] v.t = "dict" -> DOMAIN v.d # {}
      [] OTHER -> TRUE

\* d.get(k, default) of a dict d.
Get(d, k, default) == IF k \in DOMAIN d THEN d[k] ELSE default

\* str(v) inside an f-string.
PyStr(v) ==
    CASE v.t = "none" -> "None"
      [] v.t = "str" -> v.s
      [] OTHER -> "<object>"

\* s.lower() over the strings of the model.
Lower(s) ==
    CASE s = "Histogram" -> "histogram"
      [] s = "Summarize" -> "summarize"
      [] s = "SCATTER" -> "scatter"
      [] s = "Pie" -> "pie"
      [] OTHER -> s

\* Raised by the code instead of a value.
Raise(exc) == [t |-> "raise", exc |-> exc]

IsRaise(v) == v.t = "raise"

\* Whether a call ended by raising instead of returning.
Raised(r) == "exc" \in DOMAIN r

\* A message built by an f-string: the template and the values put into it.
Msg(fmt, args) == [t |-> "msg", fmt |-> fmt, args |-> args]

\* The set of the elements of a sequence.
Range(s) == {s[i] : i \in DOMAIN s}

(* ------------------------------------------------------------- the file *)

\* The text fields of an uploaded CSV file ("" is an empty field).
IntFields == {"1", "2", "3", "4", "5", "17", "18", "30"}

DateFields == {"2020-01-02", "2021-05-06"}

\* int(field) of a numeric field.
ParseInt(f) ==
    CASE f = "1" -> 1
      [] f = "2" -> 2
      [] f = "3" -> 3
      [] f = "4" -> 4
      [] f = "5" -> 5
      [] f = "17" -> 17
      [] f = "18" -> 18
      [] f = "30" -> 30

\* The day number of a date field.
ParseDate(f) ==
    CASE f = "2020-01-02" -> 1
      [] f = "2021-05-06" -> 2

\* The rank of a string in Python's string order.
StrRank(s) ==
    CASE s = "" -> 0
      [] s = "1" -> 1
      [] s = "17" -> 2
      [] s = "18" -> 3
      [] s = "2" -> 4
      [] s = "2020-01-02" -> 5
      [] s = "2021-05-06" -> 6
      [] s = "3" -> 7
      [] s = "30" -> 8
      [] s = "4" -> 9
      [] s = "5" -> 10
      [] s = "abc" -> 11
      [] s = "female" -> 12
      [] s = "male" -> 13
      [] OTHER -> 14

(* ------------------------------------------------------------ DataFrames *)

\* A DataFrame: column names in order, the dtype of each column, the index
\* labels of its rows and the values of each column.
Frame(columns, dtypes, index, data) ==
    [columns |-> columns, dtypes |-> dtypes, index |-> index, data |-> data]

NumericDtypes == {"int64", "float64"}

\* pd.api.types.is_numeric_dtype(df[col])
is_numeric_dtype(df, col) == df.dtypes[col] \in NumericDtypes

\* pd.api.types.is_datetime64_dtype(df[col])
is_datetime64_dtype(df, col) == df.dtypes[col] = "datetime64[ns]"

\* v in df.columns, for a hashable v.
ColIn(v, df) == IsStr(v) /\ v.s \in Range(df.columns)

\* Whether v can be looked up in df.columns at all (a list or dict cannot be
\* hashed: TypeError).
Hashable(v) == ~ (IsList(v) \/ IsDict(v))

\* len(df)
NRows(df) == Len(df.index)

\* The values of a column read from the file: integers when every field is one,
\* floats with NaN when the others are empty, else strings with NaN.
ColumnFromFields(fields) ==
    LET n == Len(fields)
        allInt == \A i \in 1..n : fields[i] \in IntFields
        allNum == \A i \in 1..n : fields[i] \in IntFields \cup {""}
    IN  IF n = 0 THEN [dtype |-> "object", values |-> << >>]
        ELSE IF allInt
        THEN [dtype |-> "int64",
              values |-> [i \in 1..n |-> Num(ParseInt(fields[i]))]]
        ELSE IF allNum
        THEN [dtype |-> "float64",
              values |-> [i \in 1..n |->
                            IF fields[i] = "" THEN NaN
                            ELSE Num(ParseInt(fields[i]))]]
        ELSE [dtype |-> "object",
              values |-> [i \in 1..n |->
                            IF fields[i] = "" THEN NaN ELSE Str(fields[i])]]

\* pd.read_csv: columns is the header, rows the records of text fields.
read_csv(columns, rows) ==
    LET col(c) == ColumnFromFields([i \in 1..Len(rows) |-> rows[i][c]])
    IN  Frame(columns,
              [c \in Range(columns) |-> col(c).dtype],
              [i \in 1..Len(rows) |-> i - 1],
              [c \in Range(columns) |-> col(c).values])

\* The positions of a mask that are true, in increasing order.
RECURSIVE TruePositions(_, _)
TruePositions(mask, from) ==
    IF from > Len(mask) THEN << >>
    ELSE IF mask[from] THEN <<from>> \o TruePositions(mask, from + 1)
    ELSE TruePositions(mask, from + 1)

\* df[mask]: a new frame with the rows the mask keeps, labels and dtypes kept.
SelectRows(df, mask) ==
    LET pos == TruePositions(mask, 1)
    IN  Frame(df.columns, df.dtypes,
              [i \in 1..Len(pos) |-> df.index[pos[i]]],
              [c \in Range(df.columns) |->
                 [i \in 1..Len(pos) |-> df.data[c][pos[i]]]])

\* Python's x op y for two values of one type.
ScalarCompare(a, op, b) ==
    CASE op = "==" -> a = b
      [] op = ">=" -> a >= b
      [] op = "<=" -> a <= b
      [] op = ">" -> a > b
      [] op = "<" -> a < b

\* One element of an object column against a scalar (pandas scalar_compare): a
\* missing element is False; str against int is False for == and a TypeError
\* for an ordering.
ObjectElemRaises(e, op, val) ==
    /\ e.t # "nan"
    /\ op # "=="
    /\ e.t # val.t

ObjectElemCompare(e, op, val) ==
    IF e.t = "nan" \/ e.t # val.t THEN FALSE
    ELSE IF e.t = "str" THEN ScalarCompare(StrRank(e.s), op, StrRank(val.s))
    ELSE ScalarCompare(e.n, op, val.n)

\* df[col] op val (pandas comparison_op): [raised, mask].
\*  - a None scalar compares False everywhere;
\*  - a numeric column against a string is all False for == and raises
\*    TypeError for an ordering (invalid_comparison);
\*  - an object column is compared element by element;
\*  - a numeric column against a number is compared element by element, a
\*    missing value being False.
SeriesCompare(df, col, op, val) ==
    LET vals == df.data[col]
        n == Len(vals)
        none == [i \in 1..n |-> FALSE]
    IN  IF val.t = "none" THEN [raised |-> FALSE, mask |-> none]
        ELSE IF is_numeric_dtype(df, col) /\ IsStr(val)
        THEN [raised |-> op # "==", mask |-> none]
        ELSE IF df.dtypes[col] = "object"
        THEN IF \E i \in 1..n : ObjectElemRaises(vals[i], op, val)
             THEN [raised |-> TRUE, mask |-> none]
             ELSE [raised |-> FALSE,
                   mask |-> [i \in 1..n |-> ObjectElemCompare(vals[i], op, val)]]
        ELSE [raised |-> FALSE,
              mask |-> [i \in 1..n |->
                          IF vals[i].t = "nan" THEN FALSE
                          ELSE ScalarCompare(vals[i].n, op, val.n)]]

\* Whether pd.to_numeric can read the value: anything but a string that is
\* no number.
NumericReadable(v) == v.t # "str" \/ v.s \in IntFields

\* One value under pd.to_numeric(errors="coerce"): a numeric string becomes its
\* number, any other string becomes missing; a timestamp becomes its integer.
CoerceNumericValue(v) ==
    CASE v.t = "str" -> IF v.s \in IntFields THEN Num(ParseInt(v.s)) ELSE NaN
      [] v.t = "ts" -> Num(v.d)
      [] OTHER -> v

\* pd.to_numeric(values, errors=errors): with "coerce" what cannot be read
\* becomes missing, with "raise" it raises ValueError.
to_numeric(values, errors) ==
    IF errors = "raise" /\ \E i \in 1..Len(values) : ~ NumericReadable(values[i])
    THEN Raise("ValueError")
    ELSE LET out == [i \in 1..Len(values) |-> CoerceNumericValue(values[i])]
         IN  [dtype |-> IF \E i \in 1..Len(out) : out[i].t = "nan"
                        THEN "float64" ELSE "int64",
              values |-> out]

\* Whether pd.to_datetime can read the value: anything but a string that is
\* no date.
DatetimeReadable(v) == v.t # "str" \/ v.s \in DateFields

\* One value under pd.to_datetime(errors="coerce"): a date string becomes its
\* timestamp, any other string becomes missing (NaT); a number is read as a
\* time since the epoch.
CoerceDatetimeValue(v) ==
    CASE v.t = "str" -> IF v.s \in DateFields THEN Ts(ParseDate(v.s)) ELSE NaN
      [] v.t = "num" -> Ts(v.n)
      [] OTHER -> v

\* pd.to_datetime(values, errors=errors)
to_datetime(values, errors) ==
    IF errors = "raise" /\ \E i \in 1..Len(values) : ~ DatetimeReadable(values[i])
    THEN Raise("ValueError")
    ELSE [dtype |-> "datetime64[ns]",
          values |-> [i \in 1..Len(values) |-> CoerceDatetimeValue(values[i])]]

\* df[col] = series: the column is replaced in place.
SetColumn(df, col, series) ==
    [df EXCEPT !.dtypes[col] = series.dtype, !.data[col] = series.values]

(* ------------------------------------------------------- response texts *)

\* A response text is a sequence of tokens: a run of prose without braces or
\* fences, an opening brace, a closing brace, an opening fence ```json, a
\* closing fence ```, and the members of a JSON object (what stands between
\* its outer braces, nested objects included).
W == [k |-> "w"]

LB == [k |-> "lb"]

RB == [k |-> "rb"]

FO == [k |-> "fo"]

FC == [k |-> "fc"]

Body(d) == [k |-> "body", v |-> d]

\* The text of a JSON object with members d.
Obj(d) == <<LB, Body(d), RB>>

\* json.loads(span): the object when the span is exactly one JSON object, else
\* JSONDecodeError.
json_loads(span) ==
    IF Len(span) = 3 /\ span[1] = LB /\ span[2].k = "body" /\ span[3] = RB
    THEN Dict(span[2].v)
    ELSE IF span = <<LB, RB>> THEN Dict(EmptyDict)
    ELSE Raise("JSONDecodeError")

\* ``` closes a fence; the text ```json starts with it too.
ClosesFence(tok) == tok = FC \/ tok = FO

\* The alternative ```json\s*([\s\S]*?)\s*``` matches at i.
FenceMatchesAt(text, i) ==
    text[i] = FO /\ \E j \in (i + 1)..Len(text) : ClosesFence(text[j])

\* The alternative {[\s\S]*} matches at i.
BraceMatchesAt(text, i) ==
    text[i] = LB /\ \E j \in (i + 1)..Len(text) : text[j] = RB

Min(S) == CHOOSE x \in S : \A y \in S : x <= y

Max(S) == CHOOSE x \in S : \A y \in S : x >= y

\* re.search(r"```json\s*([\s\S]*?)\s*```|{[\s\S]*}", text): the leftmost
\* position where either alternative matches; group 1 is the fence's content
\* up to the first closing fence (None for the brace alternative), group 0 the
\* whole match, which for the brace alternative runs to the last closing brace.
re_search(text) ==
    LET starts == {i \in 1..Len(text) :
                     FenceMatchesAt(text, i) \/ BraceMatchesAt(text, i)}
    IN  IF starts = {} THEN [matched |-> FALSE]
        ELSE LET i == Min(starts)
             IN  IF text[i] = FO
                 THEN LET j == Min({m \in (i + 1)..Len(text) :
                                      ClosesFence(text[m])})
                      IN  [matched |-> TRUE, fence |-> TRUE,
                           group1 |-> SubSeq(text, i + 1, j - 1),
                           group0 |-> SubSeq(text, i, j)]
                 ELSE LET j == Max({m \in (i + 1)..Len(text) : text[m] = RB})
                      IN  [matched |-> TRUE, fence |-> FALSE,
                           group1 |-> << >>,
                           group0 |-> SubSeq(text, i, j)]

\* The fallback of safe_json_parse: the text from its first { to its last }.
FirstToLastBrace(text) ==
    LET lbs == {i \in 1..Len(text) : text[i] = LB}
        rbs == {i \in 1..Len(text) : text[i] = RB}
    IN  IF lbs # {} /\ rbs # {} /\ Max(rbs) > Min(lbs)
        THEN json_loads(SubSeq(text, Min(lbs), Max(rbs)))
        ELSE Raise("JSONDecodeError")

\* safe_json_parse(text): the parsed value, or None.
safe_json_parse(text) ==
    LET m == re_search(text)
        json_str == IF m.matched
                    THEN IF Len(m.group1) > 0 THEN m.group1 ELSE m.group0
                    ELSE << >>
        first == IF m.matched THEN json_loads(json_str)
                 ELSE Raise("JSONDecodeError")
        second == FirstToLastBrace(text)
    IN  IF ~ IsRaise(first) THEN first
        ELSE IF ~ IsRaise(second) THEN second
        ELSE NONE

(* ------------------------------------------------------ parse_llm_response *)

FilterOperators == {"==", ">=", "<=", ">", "<"}

\* What parse_llm_response returns: (action, description, filters, error).
ParseReturn(action, description, filters, error) ==
    [action |-> action, description |-> description, filters |-> filters,
     error |-> error]

ParseError(error) == ParseReturn(NONE, NONE, NONE, error)

\* CheckConditions without the check of the operator.
RECURSIVE CheckConditionsNoOperator(_, _)
CheckConditionsNoOperator(conds, i) ==
    IF i > Len(conds) THEN NONE
    ELSE LET c == conds[i]
         IN  IF ~ IsDict(c)
             THEN Msg("Each filter condition must be a dictionary.", << >>)
             ELSE IF "column" \notin DOMAIN c.d \/ "value" \notin DOMAIN c.d
             THEN Msg("Filter condition missing 'column' or 'value' parameter.",
                      << >>)
             ELSE CheckConditionsNoOperator(conds, i + 1)

\* The check of the filter list, condition by condition: the first failing
\* condition's error, or None.
RECURSIVE CheckConditions(_, _)
CheckConditions(conds, i) ==
    IF i > Len(conds) THEN NONE
    ELSE LET c == conds[i]
         IN  IF ~ IsDict(c)
             THEN Msg("Each filter condition must be a dictionary.", << >>)
             ELSE IF "column" \notin DOMAIN c.d \/ "value" \notin DOMAIN c.d
             THEN Msg("Filter condition missing 'column' or 'value' parameter.",
                      << >>)
             ELSE LET operator == Get(c.d, "operator", Str("=="))
                  IN  IF ~ (IsStr(operator) /\ operator.s \in FilterOperators)
                      THEN Msg("Invalid filter operator: {}",
                               <<PyStr(operator)>>)
                      ELSE CheckConditions(conds, i + 1)

\* The check of the filter key of an action.
CheckFilter(filter_conditions) ==
    IF ~ Truthy(filter_conditions) THEN NONE
    ELSE IF ~ IsList(filter_conditions)
    THEN Msg("Filter must be a list of condition dictionaries.", << >>)
    ELSE CheckConditions(filter_conditions.l, 1)

\* The chain letting every known type pass without a look at its parameters.
CheckTypeLenient(action_type, a) ==
    IF action_type \in {"histogram", "bar", "scatter", "line", "summarize"}
    THEN NONE
    ELSE Msg("Unknown action type: {}", <<action_type>>)

\* The if/elif chain over the action type: each chart type's branch is taken
\* only when a required parameter is missing, "summarize" passes, and every
\* other case, a chart type with its parameters present included, ends in the
\* final else.
CheckType(action_type, a) ==
    IF action_type = "histogram" /\ "column" \notin DOMAIN a
    THEN Msg("Histogram action missing 'column' parameter.", << >>)
    ELSE IF action_type = "bar" /\ "x" \notin DOMAIN a
    THEN Msg("Bar chart action missing 'x' parameter.", << >>)
    ELSE IF action_type = "scatter"
            /\ ("x" \notin DOMAIN a \/ "y" \notin DOMAIN a)
    THEN Msg("Scatter plot action missing 'x' or 'y' parameter.", << >>)
    ELSE IF action_type = "line"
            /\ ("x" \notin DOMAIN a \/ "y" \notin DOMAIN a)
    THEN Msg("Line chart action missing 'x' or 'y' parameter.", << >>)
    ELSE IF action_type = "summarize"
    THEN NONE
    ELSE Msg("Unknown action type: {}", <<action_type>>)

\* The body of parse_llm_response once the text is parsed: the filter list is
\* checked before the type.
ValidateParsed(parsed) ==
    LET action == Get(parsed.d, "action", Dict(EmptyDict))
        description == Get(parsed.d, "description",
                           Str("No description provided."))
    IN  IF ~ IsDict(action) \/ "type" \notin DOMAIN action.d
        THEN ParseError(Msg("Invalid action structure in LLM response.", << >>))
        ELSE IF ~ IsStr(action.d["type"])
        THEN ParseError(Msg("Error parsing LLM response: {}",
                            <<"AttributeError">>))
        ELSE LET action_type == Lower(action.d["type"].s)
                 filter_conditions == Get(action.d, "filter", NONE)
                 ferr == CheckFilter(filter_conditions)
                 terr == CheckType(action_type, action.d)
             IN  IF ferr # NONE THEN ParseError(ferr)
                 ELSE IF terr # NONE THEN ParseError(terr)
                 ELSE ParseReturn(action, description, filter_conditions, NONE)

\* parse_llm_response(response_text)
parse_llm_response(response_text) ==
    IF Len(response_text) = 0
    THEN ParseError(Msg("No response received from the LLM.", << >>))
    ELSE LET parsed == safe_json_parse(response_text)
         IN  IF ~ Truthy(parsed)
             THEN ParseError(Msg("Could not parse LLM response as JSON.", << >>))
             ELSE ValidateParsed(parsed)

(* ------------------------------------------ prepare_data_for_visualization *)

\* What a stage returns: (value, error), and the heap it leaves.
StageReturn(heap, value, error) ==
    [heap |-> heap, value |-> value, error |-> error]

\* The except clause returning the frame beside the error.
PrepareExceptWithFrame(heap, exc) ==
    [heap |-> heap, value |-> Ref(1),
     error |-> Msg("Error preparing data: {}", <<exc>>)]

\* The except clause of prepare_data_for_visualization.
PrepareExcept(heap, exc) ==
    StageReturn(heap, NONE, Msg("Error preparing data: {}", <<exc>>))

\* The coercions run with errors="raise".
CoerceErrorsRaise == "raise"

\* The errors argument of the coercions of prepare_data_for_visualization.
CoerceErrors == "coerce"

\* try: df[col] = pd.to_numeric(df[col], errors="coerce"), for a column that
\* is not numeric: the heap with the column replaced in place, or not ok when
\* the conversion raised.
TryNumeric(heap, ref, col) ==
    IF is_numeric_dtype(heap[ref.n], col) THEN [ok |-> TRUE, heap |-> heap]
    ELSE LET series == to_numeric(heap[ref.n].data[col], CoerceErrors)
         IN  IF Raised(series) THEN [ok |-> FALSE, heap |-> heap]
             ELSE [ok |-> TRUE,
                   heap |-> [heap EXCEPT ![ref.n] = SetColumn(@, col, series)]]

\* try: df[col] = pd.to_datetime(df[col], errors="coerce"), for a column that
\* is no datetime column.
TryDatetime(heap, ref, col) ==
    IF is_datetime64_dtype(heap[ref.n], col) THEN [ok |-> TRUE, heap |-> heap]
    ELSE LET series == to_datetime(heap[ref.n].data[col], CoerceErrors)
         IN  IF Raised(series) THEN [ok |-> FALSE, heap |-> heap]
             ELSE [ok |-> TRUE,
                   heap |-> [heap EXCEPT ![ref.n] = SetColumn(@, col, series)]]

NotNumeric(col) ==
    Msg("Column '{}' is not numeric and could not be converted.", <<col>>)

AxisNotNumeric(axis, col) ==
    Msg("{}-axis column '{}' is not numeric and could not be converted.",
        <<axis, col>>)

NotFound(v) == Msg("Column '{}' not found in the dataset.", <<PyStr(v)>>)

\* MissingXY naming both parameters whichever is missing.
MissingXYBoth(x, y, df) == <<PyStr(x), PyStr(y)>>

\* The names of the x and y parameters that are not columns, each quoted, as
\* the scatter and line branches list them.
MissingXY(x, y, df) ==
    (IF ~ ColIn(x, df) THEN <<PyStr(x)>> ELSE << >>)
    \o (IF ~ ColIn(y, df) THEN <<PyStr(y)>> ELSE << >>)

PrepareHistogram(heap, ref, a) ==
    LET df == heap[ref.n]
        column == Get(a, "column", NONE)
    IN  IF ~ Hashable(column) THEN PrepareExcept(heap, "TypeError")
        ELSE IF ~ ColIn(column, df) THEN StageReturn(heap, NONE, NotFound(column))
        ELSE LET c == TryNumeric(heap, ref, column.s)
             IN  IF c.ok THEN StageReturn(c.heap, ref, NONE)
                 ELSE StageReturn(c.heap, NONE, NotNumeric(column.s))

PrepareBar(heap, ref, a) ==
    LET df == heap[ref.n]
        x == Get(a, "x", NONE)
        y == Get(a, "y", NONE)
    IN  IF ~ Hashable(x) THEN PrepareExcept(heap, "TypeError")
        ELSE IF ~ ColIn(x, df) THEN StageReturn(heap, NONE, NotFound(x))
        ELSE IF ~ Truthy(y) THEN StageReturn(heap, ref, NONE)
        ELSE IF ~ Hashable(y) THEN PrepareExcept(heap, "TypeError")
        ELSE IF ~ ColIn(y, df) THEN StageReturn(heap, NONE, NotFound(y))
        ELSE LET c == TryNumeric(heap, ref, y.s)
             IN  IF c.ok THEN StageReturn(c.heap, ref, NONE)
                 ELSE StageReturn(c.heap, NONE, NotNumeric(y.s))

PrepareScatter(heap, ref, a) ==
    LET df == heap[ref.n]
        x == Get(a, "x", NONE)
        y == Get(a, "y", NONE)
    IN  IF ~ Hashable(x) \/ ~ Hashable(y) THEN PrepareExcept(heap, "TypeError")
        ELSE IF ~ ColIn(x, df) \/ ~ ColIn(y, df)
        THEN StageReturn(heap, NONE,
                         Msg("Columns {} not found in the dataset.",
                             MissingXY(x, y, df)))
        ELSE LET cx == TryNumeric(heap, ref, x.s)
             IN  IF ~ cx.ok
                 THEN StageReturn(cx.heap, NONE, AxisNotNumeric("x", x.s))
                 ELSE LET cy == TryNumeric(cx.heap, ref, y.s)
                      IN  IF ~ cy.ok
                          THEN StageReturn(cy.heap, NONE,
                                           AxisNotNumeric("y", y.s))
                          ELSE StageReturn(cy.heap, ref, NONE)

PrepareLine(heap, ref, a) ==
    LET df == heap[ref.n]
        x == Get(a, "x", NONE)
        y == Get(a, "y", NONE)
    IN  IF ~ Hashable(x) \/ ~ Hashable(y) THEN PrepareExcept(heap, "TypeError")
        ELSE IF ~ ColIn(x, df) \/ ~ ColIn(y, df)
        THEN StageReturn(heap, NONE,
                         Msg("Columns {} not found in the dataset.",
                             MissingXY(x, y, df)))
        ELSE LET cx == TryDatetime(heap, ref, x.s)
             IN  IF ~ cx.ok
                 THEN StageReturn(cx.heap, NONE,
                          Msg("Column '{}' could not be converted to datetime for time series.",
                              <<x.s>>))
                 ELSE LET cy == TryNumeric(cx.heap, ref, y.s)
                      IN  IF ~ cy.ok
                          THEN StageReturn(cy.heap, NONE, NotNumeric(y.s))
                          ELSE StageReturn(cy.heap, ref, NONE)

\* The names of the columns of a frame, as a Python list.
ColumnList(df) == List([i \in 1..Len(df.columns) |-> Str(df.columns[i])])

\* The loop of the summarize branch: the first listed column that is not in
\* the dataset ends it with an error.
RECURSIVE PrepareSummarizeLoop(_, _, _, _)
PrepareSummarizeLoop(heap, ref, cols, i) ==
    IF i > Len(cols) THEN StageReturn(heap, ref, NONE)
    ELSE IF ~ Hashable(cols[i]) THEN PrepareExcept(heap, "TypeError")
    ELSE IF ~ ColIn(cols[i], heap[ref.n])
    THEN StageReturn(heap, NONE,
                     Msg("Column '{}' specified for summary not found in the dataset.",
                         <<PyStr(cols[i])>>))
    ELSE PrepareSummarizeLoop(heap, ref, cols, i + 1)

PrepareSummarize(heap, ref, a) ==
    LET columns == Get(a, "columns", ColumnList(heap[ref.n]))
    IN  IF ~ IsList(columns) THEN PrepareExcept(heap, "TypeError")
        ELSE PrepareSummarizeLoop(heap, ref, columns.l, 1)

\* prepare_data_for_visualization(df, action), df being the frame at ref: the
\* type is lowered before the try, so a type that is no string raises.
prepare_data_for_visualization(heap, ref, action) ==
    LET a == action.d
        type == Get(a, "type", Str(""))
    IN  IF ~ IsStr(type) THEN Raise("AttributeError")
        ELSE LET action_type == Lower(type.s)
             IN  CASE action_type = "histogram" -> PrepareHistogram(heap, ref, a)
                   [] action_type = "bar" -> PrepareBar(heap, ref, a)
                   [] action_type = "scatter" -> PrepareScatter(heap, ref, a)
                   [] action_type = "line" -> PrepareLine(heap, ref, a)
                   [] action_type = "summarize" -> PrepareSummarize(heap, ref, a)
                   [] OTHER -> StageReturn(heap, NONE,
                                           Msg("Unknown action type: {}",
                                               <<action_type>>))

(* ----------------------------------------------------------- visualizer.py *)

\* The except clause of generate_visualization.
VisualizeExcept(heap, exc) ==
    StageReturn(heap, NONE, Msg("Error generating visualization: {}", <<exc>>))

\* A figure of plotly express: its kind, its axes and the rows it draws.
Fig(kind, x, y, index) ==
    [t |-> "fig", kind |-> kind, x |-> x, y |-> y, index |-> index]

\* The key of a value in a sort: missing values last.
SortKey(v) ==
    CASE v.t = "ts" -> v.d
      [] v.t = "num" -> v.n
      [] OTHER -> 1000000

\* The positions 1..n ordered by the value of each and then by position.
RECURSIVE SortedPositions(_, _)
SortedPositions(values, left) ==
    IF left = {} THEN << >>
    ELSE LET p == CHOOSE i \in left :
                    \A j \in left :
                       \/ SortKey(values[i]) < SortKey(values[j])
                       \/ SortKey(values[i]) = SortKey(values[j]) /\ i <= j
         IN  <<p>> \o SortedPositions(values, left \ {p})

\* df.sort_values(by=col): the index labels in the order of the column.
sort_values(df, col) ==
    LET pos == SortedPositions(df.data[col], 1..NRows(df))
    IN  [i \in 1..Len(pos) |-> df.index[pos[i]]]

\* generate_visualization(df, action, description), df being the frame at ref.
\* x.capitalize() raises AttributeError for a name that is no string, and
\* plotly raises ValueError (df[x] raises KeyError) for a name that is no
\* column.
generate_visualization(heap, ref, action) ==
    LET a == action.d
        df == heap[ref.n]
        type == Get(a, "type", Str(""))
        x == Get(a, "x", NONE)
        y == Get(a, "y", NONE)
        column == Get(a, "column", NONE)
    IN  IF ~ IsStr(type) THEN Raise("AttributeError")
        ELSE LET action_type == Lower(type.s)
             IN  CASE action_type = "histogram" ->
                        IF ~ IsStr(column) THEN VisualizeExcept(heap, "AttributeError")
                        ELSE IF ~ ColIn(column, df)
                        THEN VisualizeExcept(heap, "ValueError")
                        ELSE StageReturn(heap,
                                 Fig("histogram", column, NONE, df.index), NONE)
                   [] action_type = "bar" ->
                        IF Truthy(y)
                        THEN IF ~ IsStr(x) \/ ~ IsStr(y)
                             THEN VisualizeExcept(heap, "AttributeError")
                             ELSE IF ~ ColIn(x, df) \/ ~ ColIn(y, df)
                             THEN VisualizeExcept(heap, "ValueError")
                             ELSE StageReturn(heap,
                                      Fig("bar", x, y, df.index), NONE)
                        ELSE IF ~ Hashable(x)
                        THEN VisualizeExcept(heap, "TypeError")
                        ELSE IF ~ ColIn(x, df)
                        THEN VisualizeExcept(heap, "KeyError")
                        ELSE StageReturn(heap,
                                 Fig("bar", x, Str("count"), df.index), NONE)
                   [] action_type = "scatter" ->
                        IF ~ IsStr(x) \/ ~ IsStr(y)
                        THEN VisualizeExcept(heap, "AttributeError")
                        ELSE IF ~ ColIn(x, df) \/ ~ ColIn(y, df)
                        THEN VisualizeExcept(heap, "ValueError")
                        ELSE StageReturn(heap,
                                 Fig("scatter", x, y, df.index), NONE)
                   [] action_type = "line" ->
                        IF ~ Hashable(x) THEN VisualizeExcept(heap, "TypeError")
                        ELSE IF ~ ColIn(x, df)
                        THEN VisualizeExcept(heap, "KeyError")
                        ELSE IF ~ IsStr(y)
                        THEN VisualizeExcept(heap, "AttributeError")
                        ELSE IF ~ ColIn(y, df)
                        THEN VisualizeExcept(heap, "ValueError")
                        ELSE StageReturn(heap,
                                 Fig("line", x, y,
                                     IF is_datetime64_dtype(df, x.s)
                                     THEN sort_values(df, x.s)
                                     ELSE df.index),
                                 NONE)
                   [] OTHER -> StageReturn(heap, NONE,
                                   Msg("Visualization type '{}' not supported.",
                                       <<action_type>>))

\* The cardinality below which the most frequent value is reported.
TopValueCardinality == 50

\* The missing values counted as zeros.
MissingAsZero(values) ==
    [i \in 1..Len(values) |-> IF values[i].t = "nan" THEN Num(0) ELSE values[i]]

\* The non-missing values of a column.
NonMissing(values) == SelectSeq(values, LAMBDA v : v.t # "nan")

RECURSIVE SumOf(_)
SumOf(values) ==
    IF Len(values) = 0 THEN 0 ELSE Head(values).n + SumOf(Tail(values))

\* How many times v occurs in values.
CountOf(values, v) == Cardinality({i \in 1..Len(values) : values[i] = v})

\* series.value_counts().idxmax(): the most frequent value, the first to
\* appear among those of the same count; None for a column without values.
TopValue(values) ==
    IF Len(values) = 0 THEN NONE
    ELSE LET best == Max({CountOf(values, values[i]) : i \in 1..Len(values)})
             first == Min({i \in 1..Len(values) :
                             CountOf(values, values[i]) = best})
         IN  values[first]

\* The row of the summary table for one column.
ColumnStats(df, col) ==
    LET values == df.data[col]
        present == NonMissing(values)
        count == Len(present)
        missing == Len(values) - count
    IN  IF is_numeric_dtype(df, col)
        THEN [Column |-> col, Type |-> df.dtypes[col],
              Count |-> count, Missing |-> missing,
              Mean |-> IF count = 0 THEN NaN
                       ELSE [t |-> "ratio", num |-> SumOf(present), den |-> count],
              Min |-> IF count = 0 THEN NaN
                      ELSE Num(Min({present[i].n : i \in 1..count})),
              Max |-> IF count = 0 THEN NaN
                      ELSE Num(Max({present[i].n : i \in 1..count}))]
        ELSE LET unique == Cardinality(Range(present))
             IN  IF unique < TopValueCardinality
                 THEN [Column |-> col, Type |-> df.dtypes[col],
                       Count |-> count, Missing |-> missing,
                       Unique |-> unique,
                       MostFrequent |-> TopValue(present),
                       Frequency |-> IF count = 0 THEN 0
                                     ELSE CountOf(present, TopValue(present))]
                 ELSE [Column |-> col, Type |-> df.dtypes[col],
                       Count |-> count, Missing |-> missing,
                       Unique |-> unique]

\* The loop stopping at a listed column that is not in the dataset.
RECURSIVE SummaryLoopStrict(_, _, _)
SummaryLoopStrict(df, cols, i) ==
    IF i > Len(cols) THEN << >>
    ELSE IF ~ Hashable(cols[i]) \/ ~ ColIn(cols[i], df)
    THEN <<Raise("KeyError")>>
    ELSE <<ColumnStats(df, cols[i].s)>> \o SummaryLoopStrict(df, cols, i + 1)

\* The loop of generate_summary_statistics: a listed column that is not in the
\* dataset is skipped.
RECURSIVE SummaryLoop(_, _, _)
SummaryLoop(df, cols, i) ==
    IF i > Len(cols) THEN << >>
    ELSE IF ~ Hashable(cols[i]) THEN <<Raise("TypeError")>>
    ELSE IF ~ ColIn(cols[i], df) THEN SummaryLoop(df, cols, i + 1)
    ELSE <<ColumnStats(df, cols[i].s)>> \o SummaryLoop(df, cols, i + 1)

\* generate_summary_statistics(df, action), df being the frame at ref.
generate_summary_statistics(heap, ref, action) ==
    LET df == heap[ref.n]
        columns == Get(action.d, "columns", ColumnList(df))
        except == StageReturn(heap, NONE,
                      Msg("Error generating summary statistics: {}",
                          <<"TypeError">>))
    IN  IF ~ IsList(columns) THEN except
        ELSE LET rows == SummaryLoop(df, columns.l, 1)
             IN  IF \E i \in 1..Len(rows) : "exc" \in DOMAIN rows[i]
                 THEN except
                 ELSE StageReturn(heap, [t |-> "table", rows |-> rows], NONE)

(* --------------------------------------------------- the manual builder *)

\* The rows of the sample that detect_time_columns parses.
SampleSize == 10

\* The whole sequence in place of its head.
WholeOf(seq, n) == seq

\* The first n elements of a sequence.
HeadOf(seq, n) == SubSeq(seq, 1, IF Len(seq) < n THEN Len(seq) ELSE n)

\* Whether detect_time_columns lists the column.
IsTimeColumn(df, col) ==
    LET sample == HeadOf(NonMissing(df.data[col]), SampleSize)
    IN  /\ df.dtypes[col] = "object"
        /\ Len(sample) # 0
        /\ ~ Raised(to_datetime(sample, "raise"))

\* detect_time_columns(df): the time-like columns, in column order.
detect_time_columns(df) ==
    SelectSeq(df.columns, LAMBDA c : IsTimeColumn(df, c))

\* The numeric columns of a frame, in column order.
NumericCols(df) == SelectSeq(df.columns, LAMBDA c : is_numeric_dtype(df, c))

\* The subsequences of a sequence (what a multiselect can return).
RECURSIVE SubSeqs(_)
SubSeqs(seq) ==
    IF Len(seq) = 0 THEN {<< >>}
    ELSE LET rest == SubSeqs(Tail(seq))
         IN  rest \cup {<<Head(seq)>> \o r : r \in rest}

StrList(names) == List([i \in 1..Len(names) |-> Str(names[i])])

\* What st.selectbox can return: one of its options, None when it has none.
Selectbox(options) ==
    IF Len(options) = 0 THEN {NONE} ELSE {Str(o) : o \in Range(options)}

UiReturn(action, description) == [action |-> action, description |-> description]

\* The options of the selectbox of visualization types.
VizTypes == {"histogram", "bar", "scatter", "line", "summarize"}

\* The histogram form: a numeric column when there is one, else any column.
UiHistogram(df) ==
    {UiReturn(Dict([type |-> Str("histogram"), column |-> c]),
              Msg("Distribution of {}", <<PyStr(c)>>)) :
       c \in Selectbox(IF Len(NumericCols(df)) > 0 THEN NumericCols(df)
                       ELSE df.columns)}

\* The bar form: a column for x, and with the box ticked and numeric columns
\* at hand one of them for y.
UiBar(df) ==
    {UiReturn(Dict([type |-> Str("bar"), x |-> x]),
              Msg("Bar chart showing count of {}", <<PyStr(x)>>)) :
       x \in Selectbox(df.columns)}
    \cup (IF Len(NumericCols(df)) = 0 THEN {}
          ELSE {UiReturn(Dict([type |-> Str("bar"), x |-> xy[1], y |-> xy[2]]),
                         Msg("Bar chart showing {} by {}",
                             <<PyStr(xy[2]), PyStr(xy[1])>>)) :
                  xy \in Selectbox(df.columns) \X Selectbox(NumericCols(df))})

\* The scatter form without the test of the number of numeric columns.
UiScatterUnguarded(df) ==
    {UiReturn(Dict([type |-> Str("scatter"), x |-> xy[1], y |-> xy[2]]),
              Msg("Scatter plot showing relationship between {} and {}",
                  <<PyStr(xy[1]), PyStr(xy[2])>>)) :
       xy \in Selectbox(NumericCols(df)) \X Selectbox(NumericCols(df))}

\* The scatter form: x among the numeric columns and y among the others, with
\* two numeric columns at least; (None, None) with fewer.
UiScatter(df) ==
    IF Len(NumericCols(df)) >= 2
    THEN UNION {{UiReturn(Dict([type |-> Str("scatter"), x |-> x, y |-> y]),
                          Msg("Scatter plot showing relationship between {} and {}",
                              <<PyStr(x), PyStr(y)>>)) :
                   y \in Selectbox(SelectSeq(NumericCols(df),
                                             LAMBDA c : Str(c) # x))} :
                  x \in Selectbox(NumericCols(df))}
    ELSE {UiReturn(NONE, NONE)}

\* The line form: x among the time columns, or among all columns when none was
\* detected, y among the numeric columns; (None, None) without numeric columns.
UiLine(df) ==
    LET time_cols == detect_time_columns(df)
        x_options == IF Len(time_cols) > 0 THEN time_cols ELSE df.columns
    IN  IF Len(NumericCols(df)) > 0
        THEN {UiReturn(Dict([type |-> Str("line"), x |-> xy[1], y |-> xy[2]]),
                       Msg("Line chart showing {} over {}",
                           <<PyStr(xy[2]), PyStr(xy[1])>>)) :
                xy \in Selectbox(x_options) \X Selectbox(NumericCols(df))}
        ELSE {UiReturn(NONE, NONE)}

\* The summarize form: all columns, or the columns picked in the multiselect.
UiSummarize(df) ==
    {UiReturn(Dict([type |-> Str("summarize"), columns |-> StrList(sel)]),
              Msg("Summary statistics for columns: {}", sel)) :
       sel \in SubSeqs(df.columns)}
    \cup {UiReturn(Dict([type |-> Str("summarize"),
                         columns |-> StrList(df.columns)]),
                   Msg("Summary statistics for all columns", << >>))}

\* create_action_from_ui(df) with viz_type picked in the selectbox: every
\* (action, description) the form can return, over the choices of the user.
create_action_from_ui(df, viz_type) ==
    CASE viz_type = "histogram" -> UiHistogram(df)
      [] viz_type = "bar" -> UiBar(df)
      [] viz_type = "scatter" -> UiScatter(df)
      [] viz_type = "line" -> UiLine(df)
      [] viz_type = "summarize" -> UiSummarize(df)

(* ------------------------------------------------------------ the inputs *)

\* The sequences over S of length at most n.
SeqsUpTo(S, n) == UNION {[1..k -> S] : k \in 0..n}

\* The headers of the files.
ColumnSets ==
    {<<"age", "fare", "sex", "when">>, <<"age", "sex">>, <<"sex", "when">>}

\* The records a file is made of.
RowPool ==
    {[age |-> "17", fare |-> "5", sex |-> "male", when |-> "2020-01-02"],
     [age |-> "30", fare |-> "18", sex |-> "female", when |-> "2021-05-06"],
     [age |-> "18", fare |-> "30", sex |-> "male", when |-> "abc"],
     [age |-> "", fare |-> "5", sex |-> "", when |-> "17"]}

\* The files a session can load.
Files ==
    {[columns |-> cs, rows |-> rs] :
       cs \in ColumnSets, rs \in SeqsUpTo(RowPool, MaxRows)}

NoFile == [columns |-> << >>, rows |-> << >>]

\* A file of one numeric column with the fields 1, 2, 3, 4 and an empty one.
SummaryExample ==
    [columns |-> <<"age">>,
     rows |-> <<[age |-> "1"], [age |-> "2"], [age |-> "3"], [age |-> "4"],
                [age |-> ""]>>]

\* Filter conditions of a response.
cAge == Dict([column |-> Str("age"), operator |-> Str(">="), value |-> Num(18)])

cSex == Dict([column |-> Str("sex"), value |-> Str("male")])

cGhost == Dict([column |-> Str("ghost"), operator |-> Str("=="),
                value |-> Str("male")])

cSexBelow == Dict([column |-> Str("sex"), operator |-> Str("<"),
                   value |-> Num(18)])

cNotEqual == Dict([column |-> Str("sex"), operator |-> Str("!="),
                   value |-> Str("male")])

cNullOperator == Dict([column |-> Str("sex"), operator |-> NONE,
                       value |-> Str("male")])

Conditions == {cAge, cSex, cGhost, cSexBelow, cNotEqual}

\* A dict with one more key.
With(d, k, v) == [x \in DOMAIN d \cup {k} |-> IF x = k THEN v ELSE d[x]]

\* The members of a response object with the given action.
Response(action) ==
    [action |-> Dict(action), description |-> Str("as requested")]

\* The response objects of a session: a summary under every filter list, and
\* some charts and unknown types.
SessionBodies ==
    {Response(With([type |-> Str("summarize")], "filter", List(f))) :
       f \in SeqsUpTo(Conditions, MaxFilters)}
    \cup {Response([type |-> Str("summarize"),
                    columns |-> List(<<Str("age"), Str("ghost")>>)]),
          Response([type |-> Str("Summarize"),
                    filter |-> List(<<cSex>>)]),
          Response([type |-> Str("histogram"), column |-> Str("age"),
                    filter |-> List(<<cSex, cAge>>)]),
          Response([type |-> Str("pie"), x |-> Str("sex")])}

\* The response texts of a session.
SessionTexts ==
    {Obj(b) : b \in SessionBodies}
    \cup {<<W>>, <<W, FO>> \o Obj(Response([type |-> Str("summarize")])) \o <<FC, W>>}

(* ------------------------------------------------------------- the state *)

VARIABLES
    pc,                 \* where the run of main (or the single call) stands
    source,             \* "upload", "sample" or "none": where the data comes from
    file,               \* the file (or sample) the session loads
    llm_provider,       \* "manual", "openai" or "ollama"
    has_query,          \* whether the user typed a query
    response_text,      \* what the model answers (empty: no answer)
    heap,               \* the DataFrame objects, by reference
    df,                 \* the dataset loaded for the session
    filtered_df,        \* the working dataset
    action,             \* the action of the run
    description,        \* its description
    filter_conditions,  \* the filter list of the response
    fi,                 \* the position of the filter loop
    ret,                \* what the last stage returned
    log                 \* what the run did and showed, in order

vars ==
    <<pc, source, file, llm_provider, has_query, response_text, heap, df,
      filtered_df, action, description, filter_conditions, fi, ret, log>>

Inputs == <<source, file, llm_provider, has_query, response_text>>

\* A call of a stage, an error shown with st.error, a rendered result.
Call(fn) == [ev |-> "call", fn |-> fn]

StError(stage) == [ev |-> "st.error", stage |-> stage]

Render(what) == [ev |-> "render", what |-> what]

Applied(cond) == [ev |-> "applied", cond |-> cond]

\* The visualization type picked in the manual builder.
Selected(viz_type) == [ev |-> "select", viz_type |-> viz_type]

(* ------------------------------------------------------------------ main *)

\* filtered_df = df: the same object under a second name.
df_alias(h, ref) == [heap |-> h, ref |-> ref]

\* df.copy(): a new object with the same contents.
df_copy(h, ref) == [heap |-> Append(h, h[ref.n]), ref |-> Ref(Len(h) + 1)]

\* The narrowing of a sample dataset to adult males, when it has the columns
\* sex and age.
SampleNarrowed(frame) ==
    IF "sex" \in Range(frame.columns) /\ "age" \in Range(frame.columns)
    THEN LET m1 == SeriesCompare(frame, "sex", "==", Str("male"))
             m2 == SeriesCompare(frame, "age", ">=", Num(18))
         IN  SelectRows(frame, [i \in 1..NRows(frame) |->
                                  m1.mask[i] /\ m2.mask[i]])
    ELSE frame

\* The dataset of the session, as loaded.
LoadedFrame(src, f) ==
    IF src = "sample" THEN SampleNarrowed(read_csv(f.columns, f.rows))
    ELSE read_csv(f.columns, f.rows)

\* validate_data(df) of a loaded file.
validate_data(frame) == NRows(frame) > 0 /\ Len(frame.columns) >= 1

\* main up to the query box: the data is loaded and validated.
Load ==
    /\ pc = "start"
    /\ IF source = "none"
       THEN /\ pc' = "done"
            /\ UNCHANGED <<heap, df, log>>
       ELSE LET frame == LoadedFrame(source, file)
            IN  /\ heap' = <<frame>>
                /\ df' = Ref(1)
                /\ IF source = "upload" /\ ~ validate_data(frame)
                   THEN pc' = "done" /\ log' = Append(log, StError("load"))
                   ELSE pc' = "query" /\ UNCHANGED log
    /\ UNCHANGED <<Inputs, filtered_df, action, description,
                   filter_conditions, fi, ret>>

\* The user typed a query and the model answered: on to the parser.
QueryAnswered ==
    /\ pc = "query"
    /\ has_query
    /\ llm_provider # "manual"
    /\ Len(response_text) > 0
    /\ pc' = "parse"
    /\ log' = Append(log, Call("query_llm"))
    /\ UNCHANGED <<Inputs, heap, df, filtered_df, action, description,
                   filter_conditions, fi, ret>>

\* What main does with what create_action_from_ui returned: end the run
\* without an action, copy the dataset with one.
AfterUi(viz_type, r) ==
    /\ action' = r.action
    /\ description' = r.description
    /\ log' = log \o <<Selected(viz_type), Call("create_action_from_ui")>>
    /\ pc' = IF Truthy(r.action) THEN "copy" ELSE "done"

\* The user typed a query and no answer came (the provider is unknown or
\* failed): the manual builder.
QueryUnanswered ==
    /\ pc = "query"
    /\ has_query
    /\ llm_provider = "manual" \/ Len(response_text) = 0
    /\ \E v \in VizTypes : \E r \in create_action_from_ui(heap[df.n], v) :
           AfterUi(v, r)
    /\ UNCHANGED <<Inputs, heap, df, filtered_df, filter_conditions, fi, ret>>

\* No query: the manual builder in manual mode, nothing otherwise.
NoQuery ==
    /\ pc = "query"
    /\ ~ has_query
    /\ IF llm_provider = "manual"
       THEN \E v \in VizTypes : \E r \in create_action_from_ui(heap[df.n], v) :
           AfterUi(v, r)
       ELSE pc' = "done" /\ UNCHANGED <<action, description, log>>
    /\ UNCHANGED <<Inputs, heap, df, filtered_df, filter_conditions, fi, ret>>

\* parse_llm_response on the answer; an error is shown and leads to the manual
\* builder.
Parse ==
    /\ pc = "parse"
    /\ LET r == parse_llm_response(response_text)
       IN  /\ ret' = r
           /\ action' = r.action
           /\ description' = r.description
           /\ filter_conditions' = r.filters
           /\ IF Truthy(r.error)
              THEN /\ pc' = "fallback"
                   /\ log' = log \o <<Call("parse_llm_response"), StError("parse")>>
              ELSE /\ pc' = "copy"
                   /\ log' = Append(log, Call("parse_llm_response"))
    /\ UNCHANGED <<Inputs, heap, df, filtered_df, fi>>

\* The manual builder after a parse error.
Fallback ==
    /\ pc = "fallback"
    /\ \E v \in VizTypes : \E r \in create_action_from_ui(heap[df.n], v) :
           AfterUi(v, r)
    /\ UNCHANGED <<Inputs, heap, df, filtered_df, filter_conditions, fi, ret>>

\* filtered_df = df.copy()
Copy ==
    /\ pc = "copy"
    /\ LET c == df_copy(heap, df)
       IN  heap' = c.heap /\ filtered_df' = c.ref
    /\ fi' = 1
    /\ pc' = IF Truthy(filter_conditions) THEN "filter" ELSE "dispatch"
    /\ UNCHANGED <<Inputs, df, action, description, filter_conditions, ret, log>>

\* The chain with >= read as >.
ApplyOperatorStrict(frame, col, operator, val) ==
    IF operator \in {"==", ">=", "<=", ">", "<"}
    THEN LET c == SeriesCompare(frame, col,
                                IF operator = ">=" THEN ">" ELSE operator, val)
         IN  IF c.raised THEN Raise("TypeError")
             ELSE SelectRows(frame, c.mask)
    ELSE frame

\* The if/elif chain over the operator: the rows the condition keeps; an
\* operator outside the chain keeps the frame as it is.
ApplyOperator(frame, col, operator, val) ==
    IF operator \in {"==", ">=", "<=", ">", "<"}
    THEN LET c == SeriesCompare(frame, col, operator, val)
         IN  IF c.raised THEN Raise("TypeError")
             ELSE SelectRows(frame, c.mask)
    ELSE frame

\* The filter loop of main as a function: the frame the loop ends with, or
\* what stopped it.
RECURSIVE FilterAll(_, _, _)
FilterAll(frame, conds, i) ==
    IF i > Len(conds) THEN frame
    ELSE LET condition == conds[i].d
             filter_col == condition["column"]
             operator == Get(condition, "operator", Str("=="))
         IN  IF ~ ColIn(filter_col, frame) THEN Raise("column not found")
             ELSE LET out == ApplyOperator(frame, filter_col.s, PyStr(operator),
                                           condition["value"])
                  IN  IF Raised(out) THEN out
                      ELSE FilterAll(out, conds, i + 1)

\* The filter loop left by break instead of return.
AfterFilterErrorBreak == "dispatch"

\* Where main stands after an error of the filter loop: it returns.
AfterFilterError == "done"

\* One turn of the filter loop.
FilterStep ==
    /\ pc = "filter"
    /\ LET condition == filter_conditions.l[fi].d
           filter_col == condition["column"]
           filter_val == condition["value"]
           operator == Get(condition, "operator", Str("=="))
           frame == heap[filtered_df.n]
       IN  IF ~ ColIn(filter_col, frame)
           THEN /\ log' = Append(log, StError("filter"))
                /\ pc' = AfterFilterError
                /\ UNCHANGED <<heap, filtered_df, fi>>
           ELSE LET out == ApplyOperator(frame, filter_col.s, PyStr(operator),
                                         filter_val)
                IN  IF Raised(out)
                    THEN /\ log' = Append(log, StError("filter"))
                         /\ pc' = AfterFilterError
                         /\ UNCHANGED <<heap, filtered_df, fi>>
                    ELSE /\ heap' = Append(heap, out)
                         /\ filtered_df' = Ref(Len(heap) + 1)
                         /\ log' = Append(log, Applied(fi))
                         /\ fi' = fi + 1
                         /\ pc' = IF fi = Len(filter_conditions.l)
                                  THEN "dispatch" ELSE "filter"
    /\ UNCHANGED <<Inputs, df, action, description, filter_conditions, ret>>

\* The summary branch: action["type"] == "summarize".
Summarize ==
    /\ pc = "dispatch"
    /\ action.d["type"] = Str("summarize")
    /\ LET r == generate_summary_statistics(heap, filtered_df, action)
       IN  /\ ret' = r
           /\ heap' = r.heap
           /\ log' = log \o <<Call("generate_summary_statistics"),
                              IF Truthy(r.error) THEN StError("execute")
                              ELSE Render("summary")>>
    /\ pc' = "done"
    /\ UNCHANGED <<Inputs, df, filtered_df, action, description,
                   filter_conditions, fi>>

\* The chart branch, first half: prepare_data_for_visualization.
Prepare ==
    /\ pc = "dispatch"
    /\ action.d["type"] # Str("summarize")
    /\ LET r == prepare_data_for_visualization(heap, filtered_df, action)
       IN  /\ ret' = r
           /\ heap' = r.heap
           /\ IF Truthy(r.error)
              THEN /\ pc' = "done"
                   /\ log' = log \o <<Call("prepare_data_for_visualization"),
                                      StError("validate")>>
              ELSE /\ pc' = "visualize"
                   /\ log' = Append(log, Call("prepare_data_for_visualization"))
    /\ UNCHANGED <<Inputs, df, filtered_df, action, description,
                   filter_conditions, fi>>

\* The chart branch, second half: generate_visualization on the prepared frame.
Visualize ==
    /\ pc = "visualize"
    /\ LET r == generate_visualization(heap, ret.value, action)
       IN  /\ ret' = r
           /\ heap' = r.heap
           /\ log' = log \o <<Call("generate_visualization"),
                              IF Truthy(r.error) THEN StError("execute")
                              ELSE Render("chart")>>
    /\ pc' = "done"
    /\ UNCHANGED <<Inputs, df, filtered_df, action, description,
                   filter_conditions, fi>>

Init ==
    /\ pc = "start"
    /\ source \in {"upload", "sample", "none"}
    /\ file \in IF source = "none" THEN {NoFile}
                ELSE IF source = "sample"
                THEN {f \in Files : Len(f.rows) > 0}
                ELSE Files
    /\ llm_provider \in {"manual", "openai", "ollama"}
    /\ has_query \in BOOLEAN
    /\ response_text \in IF has_query /\ llm_provider # "manual"
                         THEN SessionTexts \cup {<< >>}
                         ELSE {<< >>}
    /\ heap = << >>
    /\ df = NONE
    /\ filtered_df = NONE
    /\ action = NONE
    /\ description = NONE
    /\ filter_conditions = NONE
    /\ fi = 0
    /\ ret = NONE
    /\ log = << >>

Next ==
    \/ Load
    \/ QueryAnswered
    \/ QueryUnanswered
    \/ NoQuery
    \/ Parse
    \/ Fallback
    \/ Copy
    \/ FilterStep
    \/ Summarize
    \/ Prepare
    \/ Visualize

Spec == Init /\ [][Next]_vars

(* ------------------------------------------------- the stages, one by one *)

\* What a parameter of an action can hold: a column, a name that is no
\* column, the empty string, a list.
ParamValues ==
    {Str("age"), Str("sex"), Str("when"), Str("ghost"), Str(""),
     List(<<Str("age")>>)}

\* The dicts over some of the given keys, with values from ParamValues.
ParamDicts(keys) ==
    UNION {[ks -> ParamValues] : ks \in SUBSET keys}

ColumnLists ==
    {List(<< >>), List(<<Str("age")>>), List(<<Str("age"), Str("ghost")>>),
     List(<<Str("ghost"), Str("sex")>>), List(<<Str("sex"), Str("when")>>),
     List(<<Str("when"), Str("age")>>), List(<<Str("sex"), Str("sex")>>),
     List(<<List(<<Str("age")>>)>>), NONE}

\* The actions handed to a stage directly: every type, in some letter cases,
\* with and without its parameters.
StageActions ==
    {Dict(With(d, "type", Str(t))) :
       d \in ParamDicts({"column"}), t \in {"histogram", "Histogram"}}
    \cup {Dict(With(d, "type", Str(t))) :
            d \in ParamDicts({"x", "y"}), t \in {"bar", "scatter", "line"}}
    \cup {Dict([type |-> Str("summarize"), columns |-> c]) : c \in ColumnLists}
    \cup {Dict([type |-> Str("summarize")]), Dict([type |-> Str("Summarize")]),
          Dict([type |-> Str("pie"), x |-> Str("age")]),
          Dict([x |-> Str("age")])}

\* The filter keys of the response objects handed to the parser directly.
FilterValues ==
    {List(<< >>), List(<<cSex>>), List(<<cSex, cNotEqual>>),
     List(<<cNotEqual, cSex>>), List(<<cNullOperator>>), Str("sex == male"),
     List(<<Str("sex")>>), List(<<Dict([column |-> Str("sex")])>>),
     List(<<cAge, cSex>>)}

TypeValues ==
    {Str("histogram"), Str("Histogram"), Str("bar"), Str("scatter"),
     Str("SCATTER"), Str("line"), Str("summarize"), Str("Summarize"),
     Str("pie"), Str("Pie"), Str(""), Num(5)}

\* The action dicts of those objects: every type with some of the keys column,
\* x, y and filter.
ParserActions ==
    {With(d, "type", t) :
       d \in UNION {[ks -> {Str("age")}] : ks \in SUBSET {"column", "x", "y"}},
       t \in TypeValues}

ParserBodies ==
    {Response(a) : a \in ParserActions}
    \cup {Response(With(a, "filter", f)) : a \in ParserActions, f \in FilterValues}
    \cup {[action |-> Dict([type |-> Str("summarize")])],
          [action |-> Str("histogram")],
          [description |-> Str("as requested")],
          Response([column |-> Str("age")]),
          Response([type |-> Str("histogram"),
                    parameters |-> Dict([column |-> Str("age")])]),
          Response([type |-> Str("summarize"),
                    parameters |-> Dict([columns |-> List(<< >>)])])}

\* The objects set in every shape of text.
ShapedBodies ==
    {Response([type |-> Str("summarize"), filter |-> List(<<cSex>>)]),
     Response([type |-> Str("histogram"), column |-> Str("age")]),
     Response([type |-> Str("pie"), x |-> Str("sex")])}

\* The segments of a text around the object with members b.
Segments(b) ==
    {<<W>>, <<LB>>, <<RB>>, <<FO>>, <<FC>>, Obj(b), <<FO>> \o Obj(b) \o <<FC>>}

RECURSIVE Concat(_)
Concat(ss) == IF Len(ss) = 0 THEN << >> ELSE Head(ss) \o Concat(Tail(ss))

\* The texts handed to the parser directly.
ParserTexts ==
    {Obj(b) : b \in ParserBodies}
    \cup UNION {{Concat(ss) : ss \in SeqsUpTo(Segments(b), MaxSegs)} :
                  b \in ShapedBodies}

\* Files of two text columns, longer than the sample of detect_time_columns:
\* the fields of each column are given top down.
TwoColumns(header, when, seen) ==
    [columns |-> header,
     rows |-> [i \in 1..Len(when) |-> [when |-> when[i], seen |-> seen[i]]]]

Dates(n) == [i \in 1..n |-> IF i % 2 = 1 THEN "2020-01-02" ELSE "2021-05-06"]

DetectFiles ==
    {TwoColumns(<<"when", "seen">>,
                Dates(SampleSize) \o <<"abc">>,
                Dates(SampleSize - 1) \o <<"abc", "2020-01-02">>),
     TwoColumns(<<"seen", "when">>,
                <<"">> \o Dates(SampleSize) \o <<"abc">>,
                Dates(SampleSize + 2)),
     TwoColumns(<<"when", "seen">>,
                <<"", "">> \o Dates(SampleSize - 1) \o <<"abc">>,
                <<"", "", "">> \o Dates(SampleSize - 1))}

\* A single call of one stage on inputs of its own.
StageInit ==
    /\ pc = "call"
    /\ source = "none"
    /\ llm_provider = "manual"
    /\ has_query = FALSE
    /\ \/ /\ response_text \in ParserTexts
          /\ file = NoFile
          /\ heap = << >>
          /\ df = NONE
          /\ action = NONE
       \/ /\ response_text = << >>
          /\ file \in Files \cup {SummaryExample}
          /\ heap = <<read_csv(file.columns, file.rows)>>
          /\ df = Ref(1)
          /\ action \in StageActions
       \/ /\ response_text = << >>
          /\ file \in Files \cup DetectFiles
          /\ heap = <<read_csv(file.columns, file.rows)>>
          /\ df = Ref(1)
          /\ action = NONE
    /\ filtered_df = NONE
    /\ description = NONE
    /\ filter_conditions = NONE
    /\ fi = 0
    /\ ret = NONE
    /\ log = << >>

\* The call ends with what the stage returned, or with what it raised.
Returned(fn, r) ==
    /\ ret' = r
    /\ heap' = IF Raised(r) THEN heap ELSE r.heap
    /\ pc' = "returned"
    /\ log' = Append(log, Call(fn))
    /\ UNCHANGED <<Inputs, df, filtered_df, action, description,
                   filter_conditions, fi>>

CallParse ==
    /\ pc = "call"
    /\ df = NONE
    /\ ret' = parse_llm_response(response_text)
    /\ pc' = "returned"
    /\ log' = Append(log, Call("parse_llm_response"))
    /\ UNCHANGED <<Inputs, heap, df, filtered_df, action, description,
                   filter_conditions, fi>>

CallPrepare ==
    /\ pc = "call"
    /\ action # NONE
    /\ Returned("prepare_data_for_visualization",
                prepare_data_for_visualization(heap, df, action))

CallSummary ==
    /\ pc = "call"
    /\ action # NONE
    /\ Returned("generate_summary_statistics",
                generate_summary_statistics(heap, df, action))

CallVisualize ==
    /\ pc = "call"
    /\ action # NONE
    /\ Returned("generate_visualization",
                generate_visualization(heap, df, action))

\* detect_time_columns(df) returns the list of the names it found.
CallDetect ==
    /\ pc = "call"
    /\ df # NONE
    /\ action = NONE
    /\ ret' = StrList(detect_time_columns(heap[df.n]))
    /\ pc' = "returned"
    /\ log' = Append(log, Call("detect_time_columns"))
    /\ UNCHANGED <<Inputs, heap, df, filtered_df, action, description,
                   filter_conditions, fi>>

StageNext ==
    CallParse \/ CallPrepare \/ CallSummary \/ CallVisualize \/ CallDetect

StageSpec == StageInit /\ [][StageNext]_vars

(* ------------------------------------------------------------- the claims *)

\* The stage a single call ran.
CalledStage == IF pc = "returned" THEN log[1].fn ELSE "none"

ActionTypes == {"histogram", "bar", "scatter", "line", "summarize"}

\* The type of an action, in lower case ("" without one).
TypeOf(a) == Lower(Get(a.d, "type", Str("")).s)

\* The parameters each type reads, and those it requires.
ReadParams(a) ==
    CASE TypeOf(a) = "histogram" -> {"column"}
      [] TypeOf(a) \in {"bar", "scatter", "line"} -> {"x", "y"}
      [] OTHER -> {}

RequiredParams(a) ==
    CASE TypeOf(a) = "histogram" -> {"column"}
      [] TypeOf(a) = "bar" -> {"x"}
      [] TypeOf(a) \in {"scatter", "line"} -> {"x", "y"}
      [] OTHER -> {}

\* An action carries a parameter when it holds a name (a string that is not
\* empty: an empty name is no column).
Carries(a, k) == k \in DOMAIN a.d /\ IsStr(a.d[k]) /\ a.d[k].s # ""

\* Every parameter the type reads holds a string, and the columns of a summary
\* are a list of strings.
WellTyped(a) ==
    /\ \A k \in ReadParams(a) \cap DOMAIN a.d : IsStr(a.d[k])
    /\ TypeOf(a) = "summarize" /\ "columns" \in DOMAIN a.d =>
         /\ IsList(a.d["columns"])
         /\ \A c \in Range(a.d["columns"].l) : IsStr(c)

\* The column names an action refers to.
ReferencedNames(a) ==
    {a.d[k].s : k \in {p \in ReadParams(a) : Carries(a, p)}}
    \cup (IF TypeOf(a) = "summarize" /\ "columns" \in DOMAIN a.d
             /\ IsList(a.d["columns"])
          THEN {c.s : c \in {e \in Range(a.d["columns"].l) : IsStr(e)}}
          ELSE {})

\* The dataset a single call started from.
GivenFrame == read_csv(file.columns, file.rows)

\* prepare_data_for_visualization returned from a call with a well-formed
\* action: one of the five types, with names in its parameters and with the
\* parameters its type requires.
PrepareReturned ==
    /\ pc = "returned"
    /\ CalledStage = "prepare_data_for_visualization"
    /\ TypeOf(action) \in ActionTypes
    /\ WellTyped(action)
    /\ \A k \in RequiredParams(action) : Carries(action, k)

\* C1: when a well-formed action of one of the five types refers to a column
\* that the dataset does not have, prepare_data_for_visualization returns (None, error),
\* the error names one of the absent columns and names no column of the dataset.
C1_AbsentColumnNamed ==
    (PrepareReturned
       /\ \E n \in ReferencedNames(action) : n \notin Range(GivenFrame.columns))
    => /\ ret.value = NONE
       /\ ret.error.t = "msg"
       /\ \E n \in ReferencedNames(action) \ Range(GivenFrame.columns) :
              n \in Range(ret.error.args)
       /\ Range(ret.error.args) \cap Range(GivenFrame.columns) = {}

\* A scatter action whose x is a column and whose y is not was refused, naming y.
C1_Witness ==
    /\ PrepareReturned
    /\ TypeOf(action) = "scatter"
    /\ Carries(action, "x") /\ Carries(action, "y")
    /\ action.d["x"].s \in Range(GivenFrame.columns)
    /\ action.d["y"].s \notin Range(GivenFrame.columns)
    /\ ret.value = NONE
    /\ ret.error.args = <<action.d["y"].s>>

\* The columns prepare_data_for_visualization has to make numeric.
NumericNeeded(a) ==
    CASE TypeOf(a) = "histogram" -> {a.d["column"].s}
      [] TypeOf(a) = "bar" -> IF Carries(a, "y") THEN {a.d["y"].s} ELSE {}
      [] TypeOf(a) = "scatter" -> {a.d["x"].s, a.d["y"].s}
      [] TypeOf(a) = "line" -> {a.d["y"].s}
      [] OTHER -> {}

\* The column it has to make a datetime column.
DatetimeNeeded(a) ==
    IF TypeOf(a) = "line" /\ a.d["x"] # a.d["y"] THEN {a.d["x"].s} ELSE {}

C2_Case ==
    /\ PrepareReturned
    /\ ReferencedNames(action) \subseteq Range(GivenFrame.columns)

\* C2: for an action of one of the five types that carries its required
\* parameters and refers only to columns of the dataset,
\* prepare_data_for_visualization returns (the dataset, None) whatever the
\* columns hold: the columns it needed numeric are numeric, the time axis of a
\* line is a datetime column, no row is lost, and a value that could not be
\* converted is missing.
C2_ExistingColumnsPrepared ==
    C2_Case
    => /\ ret.error = NONE
       /\ ret.value = df
       /\ LET before == GivenFrame
              after == heap[df.n]
          IN  /\ after.index = before.index
              /\ \A c \in NumericNeeded(action) :
                     /\ is_numeric_dtype(after, c)
                     /\ \A i \in 1..NRows(after) :
                            /\ after.data[c][i].t \in {"num", "nan"}
                            /\ ~ NumericReadable(before.data[c][i])
                               /\ TypeOf(action) # "line"
                               => after.data[c][i] = NaN
              /\ \A c \in DatetimeNeeded(action) :
                     /\ is_datetime64_dtype(after, c)
                     /\ \A i \in 1..NRows(after) :
                            /\ after.data[c][i].t \in {"ts", "nan"}
                            /\ ~ DatetimeReadable(before.data[c][i])
                               => after.data[c][i] = NaN

\* A histogram of a text column was prepared, a value of it that is no number
\* having become missing.
C2_Witness ==
    /\ C2_Case
    /\ TypeOf(action) = "histogram"
    /\ ret.value = df
    /\ \E i \in 1..NRows(GivenFrame) :
           /\ GivenFrame.data[action.d["column"].s][i].t = "str"
           /\ heap[df.n].data[action.d["column"].s][i] = NaN

\* The dataset of the session as it was loaded.
Loaded == LoadedFrame(source, file)

\* The working dataset of the run.
Working == heap[filtered_df.n]

\* Whether a value satisfies a condition: it is present, of the type of the
\* condition's value, and compares as the operator says (== without one).
Satisfies(v, c) ==
    LET val == c.d["value"]
        operator == Get(c.d, "operator", Str("==")).s
    IN  /\ v.t \in {"num", "str"}
        /\ v.t = val.t
        /\ IF v.t = "str"
           THEN ScalarCompare(StrRank(v.s), operator, StrRank(val.s))
           ELSE ScalarCompare(v.n, operator, val.n)

\* The positions of the rows of a frame that satisfy every condition.
SatisfyingRows(frame, conds) ==
    {i \in 1..NRows(frame) :
       \A j \in 1..Len(conds) :
           Satisfies(frame.data[conds[j].d["column"].s][i], conds[j])}

\* The filter loop of main ran through a filter list without an error.
FiltersApplied ==
    /\ pc \in {"dispatch", "visualize", "done"}
    /\ Truthy(filter_conditions)
    /\ filtered_df # NONE
    /\ \A i \in 1..Len(log) :
           log[i].ev = "st.error" => log[i].stage \notin {"filter", "parse"}

\* C3: after main applied a filter list without an error, the working dataset
\* holds exactly the rows of the loaded dataset that satisfy every condition,
\* in their original order, and applying the conditions in any other order
\* that raises no error gives the same rows.
C3_FiltersConjoin ==
    (FiltersApplied /\ pc = "dispatch")
    => LET conds == filter_conditions.l
           keep == SatisfyingRows(Loaded, conds)
       IN  /\ Working.columns = Loaded.columns
           /\ Range(Working.index) = {Loaded.index[i] : i \in keep}
           /\ \A k \in 1..(NRows(Working) - 1) :
                  Working.index[k] < Working.index[k + 1]
           /\ \A k \in 1..NRows(Working) : \A i \in keep :
                  Working.index[k] = Loaded.index[i]
                  => \A c \in Range(Loaded.columns) :
                         Working.data[c][k] = Loaded.data[c][i]
           /\ \A p \in Permutations(1..Len(conds)) :
                  LET other == FilterAll(Loaded,
                                         [j \in 1..Len(conds) |-> conds[p[j]]], 1)
                  IN  ~ Raised(other) => other = Working

\* Two conditions were applied, each of which alone drops a row the other
\* keeps or keeps a row the other drops, and some row passed both.
C3_Witness ==
    /\ FiltersApplied
    /\ pc = "dispatch"
    /\ filter_conditions.l = <<cAge, cSex>>
    /\ NRows(Working) >= 1
    /\ NRows(Working) < NRows(Loaded)

\* The conditions of the filter list of the response, when its text is an
\* object whose action holds a list under "filter".
ResponseFilter ==
    IF /\ Len(response_text) = 3
       /\ response_text[2].k = "body"
       /\ "action" \in DOMAIN response_text[2].v
       /\ IsDict(response_text[2].v["action"])
       /\ "filter" \in DOMAIN response_text[2].v["action"].d
       /\ IsList(response_text[2].v["action"].d["filter"])
    THEN response_text[2].v["action"].d["filter"].l
    ELSE << >>

BadOperator(c) ==
    /\ IsDict(c)
    /\ "operator" \in DOMAIN c.d
    /\ ~ (IsStr(c.d["operator"]) /\ c.d["operator"].s \in FilterOperators)

\* The response carries a filter list with an operator outside the five.
HasBadOperator == \E i \in 1..Len(ResponseFilter) : BadOperator(ResponseFilter[i])

\* C5: a response whose filter list holds an operator outside ==, >=, <=, >, <
\* is refused by the parser (no action, an error), and main applies none of its
\* conditions: the filter loop is never entered and the working dataset keeps
\* every row.
C5_BadOperatorNothingApplied ==
    HasBadOperator
    => /\ filter_conditions = NONE
       /\ pc # "filter"
       /\ \A i \in 1..Len(log) : log[i].ev # "applied"
       /\ pc = "fallback" => ret.action = NONE /\ Truthy(ret.error)
       /\ Call("parse_llm_response") \in Range(log)
          => StError("parse") \in Range(log)
       /\ filtered_df # NONE => Working.index = Loaded.index

\* A response whose first condition is valid and whose second has the operator
\* != was refused, and the run went on to a result through the manual builder.
C5_Witness ==
    /\ HasBadOperator
    /\ Len(ResponseFilter) = 2
    /\ ~ BadOperator(ResponseFilter[1])
    /\ ColIn(ResponseFilter[1].d["column"], Loaded)
    /\ pc = "done"
    /\ \E i \in 1..Len(log) : log[i].ev = "render"

\* C9: through filtering, coercion and the producers, on the model path and on
\* the manual path, the dataset loaded for the session keeps its rows, values
\* and column types.
C9_LoadedDatasetUnchanged == df # NONE => heap[df.n] = Loaded

\* A run ended with a working copy whose column types differ from the loaded
\* dataset's: a coercion happened.
C9_Witness ==
    /\ pc = "done"
    /\ filtered_df # NONE
    /\ Working.dtypes # heap[df.n].dtypes
    /\ \E i \in 1..Len(log) : log[i].ev = "render"

\* The errors after which main stops.
Stopping(e) ==
    e.ev = "st.error" /\ e.stage \in {"filter", "validate", "execute"}

\* C10: once a filter, validation or execution error is shown, nothing more
\* runs: the error is the last thing of the run, the run is over, and no chart
\* or summary is rendered in it.
C10_ErrorStopsRun ==
    \A i \in 1..Len(log) :
        Stopping(log[i])
        => /\ i = Len(log)
           /\ pc = "done"
           /\ \A j \in 1..Len(log) : log[j].ev # "render"

\* The second condition of a filter list failed after the first was applied,
\* and nothing ran after it.
C10_Witness ==
    /\ pc = "done"
    /\ Len(log) >= 2
    /\ log[Len(log)] = StError("filter")
    /\ log[Len(log) - 1] = Applied(1)
    /\ Len(filter_conditions.l) = 2

\* The parser returned from a single call.
ParseReturned == pc = "returned" /\ CalledStage = "parse_llm_response"

\* The span is the text of one JSON object.
IsObject(span) ==
    Len(span) = 3 /\ span[1] = LB /\ span[2].k = "body" /\ span[3] = RB

\* An action as the parser is to accept it: a dict with one of the five types
\* in any letter case, the parameters its type requires, and a filter list, if
\* any, of conditions with a column, a value and one of the five operators.
ValidCondition(c) ==
    /\ IsDict(c)
    /\ {"column", "value"} \subseteq DOMAIN c.d
    /\ "operator" \in DOMAIN c.d
       => IsStr(c.d["operator"]) /\ c.d["operator"].s \in FilterOperators

ValidAction(a) ==
    /\ IsDict(a)
    /\ "type" \in DOMAIN a.d
    /\ IsStr(a.d["type"])
    /\ TypeOf(a) \in ActionTypes
    /\ \A k \in RequiredParams(a) : k \in DOMAIN a.d
    /\ "filter" \in DOMAIN a.d
       => /\ IsList(a.d["filter"])
          /\ \A i \in 1..Len(a.d["filter"].l) : ValidCondition(a.d["filter"].l[i])

\* C4: a response whose action has a type outside the five, compared in lower
\* case, gets no action and an error that names the type, whatever else the
\* action holds.
C4_UnknownTypeNamed ==
    (/\ ParseReturned
     /\ IsObject(response_text)
     /\ "action" \in DOMAIN response_text[2].v
     /\ IsDict(response_text[2].v["action"])
     /\ "type" \in DOMAIN response_text[2].v["action"].d
     /\ IsStr(response_text[2].v["action"].d["type"])
     /\ TypeOf(response_text[2].v["action"]) \notin ActionTypes \cup {""})
    => /\ ret.action = NONE
       /\ ret.error # NONE
       /\ TypeOf(response_text[2].v["action"]) \in Range(ret.error.args)

\* A text of prose only: words and braces, no fence.
IsProse(text) == \A i \in 1..Len(text) : text[i] \in {W, LB, RB}

\* The text is prose, a fenced block holding an object with a valid action
\* at position i, and prose.
FencedAt(i) ==
    /\ i + 4 <= Len(response_text)
    /\ response_text[i] = FO
    /\ response_text[i + 4] = FC
    /\ IsObject(SubSeq(response_text, i + 1, i + 3))
    /\ "action" \in DOMAIN response_text[i + 2].v
    /\ ValidAction(response_text[i + 2].v["action"])
    /\ IsProse(SubSeq(response_text, 1, i - 1))
    /\ IsProse(SubSeq(response_text, i + 5, Len(response_text)))

\* C6: for a text of prose, a fenced block holding an object with a valid
\* action, and prose, the parser returns what it returns for the bare object,
\* and the action it returns is the object's action.
C6_FencedAsBare ==
    ParseReturned
    => \A i \in 1..Len(response_text) :
           FencedAt(i)
           => /\ ret = parse_llm_response(SubSeq(response_text, i + 1, i + 3))
              /\ ret.action = response_text[i + 2].v["action"]

\* C7: for a text without a fence that starts with an object holding a valid
\* action and goes on with text holding a closing brace, safe_json_parse gives
\* that first object.
C7_FirstObjectExtracted ==
    (/\ ParseReturned
     /\ Len(response_text) > 3
     /\ IsObject(SubSeq(response_text, 1, 3))
     /\ "action" \in DOMAIN response_text[2].v
     /\ ValidAction(response_text[2].v["action"])
     /\ \A i \in 4..Len(response_text) : response_text[i] \notin {FO, FC}
     /\ \E i \in 4..Len(response_text) : response_text[i] = RB)
    => /\ safe_json_parse(response_text) = Dict(response_text[2].v)
       /\ ret.error # Msg("Could not parse LLM response as JSON.", << >>)

\* C8: every stage returns a result and no error, or no result and an error:
\* the parser (action, description, filters, None) or (None, None, None,
\* error), the other stages (value, None) or (None, error), and none of them
\* lets an exception out.
C8_ResultXorError ==
    (/\ pc = "returned"
     /\ CalledStage \in {"parse_llm_response", "prepare_data_for_visualization",
                         "generate_summary_statistics", "generate_visualization"})
    => /\ ~ Raised(ret)
       /\ IF CalledStage = "parse_llm_response"
          THEN \/ ret.action # NONE /\ ret.error = NONE
               \/ /\ ret.action = NONE
                  /\ ret.description = NONE
                  /\ ret.filters = NONE
                  /\ ret.error # NONE
          ELSE \/ ret.value # NONE /\ ret.error = NONE
               \/ ret.value = NONE /\ ret.error # NONE

\* A stage returned from its except clause: an exception was raised in it.
C8_Witness ==
    /\ pc = "returned"
    /\ CalledStage = "prepare_data_for_visualization"
    /\ ret.value = NONE
    /\ ret.error # NONE
    /\ ret.error.fmt = "Error preparing data: {}"

\* C11: the parser returns an action, with no error, only if the action is a
\* dict whose type, in lower case, is one of the five and which holds the keys
\* its type requires.
C11_ReturnedActionWellFormed ==
    (ParseReturned /\ ret.action # NONE)
    => /\ ret.error = NONE
       /\ IsDict(ret.action)
       /\ "type" \in DOMAIN ret.action.d
       /\ IsStr(ret.action.d["type"])
       /\ TypeOf(ret.action) \in ActionTypes
       /\ \A k \in RequiredParams(ret.action) : k \in DOMAIN ret.action.d

\* The parser returned an action whose type is not written in lower case.
C11_Witness ==
    /\ ParseReturned
    /\ ret.action # NONE
    /\ ret.action.d["type"] = Str("Summarize")

\* generate_summary_statistics returned from a call with a summarize action
\* whose columns, if any, are a list of names.
SummaryReturned ==
    /\ pc = "returned"
    /\ CalledStage = "generate_summary_statistics"
    /\ TypeOf(action) = "summarize"
    /\ WellTyped(action)

\* The names a summarize action asks for: its list, or without one every
\* column of the dataset.
Requested ==
    IF "columns" \in DOMAIN action.d
    THEN [i \in 1..Len(action.d["columns"].l) |-> action.d["columns"].l[i].s]
    ELSE GivenFrame.columns

\* The names of the rows of the table returned.
RowNames == [i \in 1..Len(ret.value.rows) |-> ret.value.rows[i].Column]

\* C12: for a summarize action, generate_summary_statistics returns no error
\* and a table with one row per requested column that the dataset has, in the
\* order of the request; requested columns the dataset lacks are skipped.
C12_AbsentColumnsSkipped ==
    SummaryReturned
    => /\ ret.error = NONE
       /\ ret.value # NONE
       /\ RowNames = SelectSeq(Requested,
                               LAMBDA c : c \in Range(GivenFrame.columns))

\* A request naming an absent column before a present one returned the row of
\* the present one; so did a request in another order than the dataset's.
C12_Witness ==
    /\ SummaryReturned
    /\ Requested = <<"ghost", "sex">>
    /\ "sex" \in Range(GivenFrame.columns)
    /\ ret.error = NONE
    /\ RowNames = <<"sex">>

\* C13: a summarize action without columns, or with an empty list of them,
\* gets one row for every column of the dataset.
C13_EmptyMeansAll ==
    (/\ SummaryReturned
     /\ "columns" \in DOMAIN action.d => action.d["columns"] = List(<< >>))
    => /\ ret.error = NONE
       /\ ret.value # NONE
       /\ RowNames = GivenFrame.columns

\* The values of a column of the dataset, and the positions of the missing ones.
MissingAt(col) ==
    {i \in 1..NRows(GivenFrame) : GivenFrame.data[col][i] = NaN}

RECURSIVE Total(_, _)
Total(f, S) ==
    IF S = {} THEN 0
    ELSE LET i == CHOOSE x \in S : TRUE IN f[i].n + Total(f, S \ {i})

\* C14: in every row of the summary, Count is the number of non-missing values
\* of the column, Missing the number of missing ones, their sum the number of
\* rows, and for a numeric column with values Mean is the sum of the
\* non-missing values over Count; the values 1, 2, 3, 4 and a missing one give
\* count 4, mean 2.5 (10 / 4) and missing 1.
C14_CountMissingMean ==
    (SummaryReturned /\ ret.error = NONE)
    => /\ \A i \in 1..Len(ret.value.rows) :
              LET row == ret.value.rows[i]
                  col == row.Column
                  present == (1..NRows(GivenFrame)) \ MissingAt(col)
              IN  /\ row.Count = Cardinality(present)
                  /\ row.Missing = Cardinality(MissingAt(col))
                  /\ row.Count + row.Missing = NRows(GivenFrame)
                  /\ (GivenFrame.dtypes[col] \in {"int64", "float64"}
                      /\ present # {})
                     => /\ row.Mean.den = row.Count
                        /\ row.Mean.num = Total(GivenFrame.data[col], present)
       /\ (file = SummaryExample /\ Len(ret.value.rows) = 1)
          => /\ ret.value.rows[1].Count = 4
             /\ ret.value.rows[1].Missing = 1
             /\ 2 * ret.value.rows[1].Mean.num = 5 * ret.value.rows[1].Mean.den

\* The column 1, 2, 3, 4, missing was summarized.
C14_Witness ==
    /\ SummaryReturned
    /\ file = SummaryExample
    /\ ret.error = NONE
    /\ Len(ret.value.rows) = 1
    /\ ret.value.rows[1].Count = 4

\* The numeric columns of the loaded dataset, by their type.
LoadedNumeric ==
    {c \in Range(Loaded.columns) : Loaded.dtypes[c] \in {"int64", "float64"}}

\* The manual builder ran with this type picked, at position i of the log.
BuilderRanAt(i, viz_type) ==
    /\ i < Len(log)
    /\ log[i] = Selected(viz_type)
    /\ log[i + 1] = Call("create_action_from_ui")

\* C15: the manual builder with scatter picked, on a dataset with fewer than
\* two numeric columns, returns (None, None), and the run of main ends there:
\* nothing is validated, executed, rendered or shown as an error after it; with
\* two numeric columns or more it returns a scatter action whose x and y are
\* two different numeric columns.
C15_ScatterNeedsTwoNumeric ==
    \A i \in 1..Len(log) :
        BuilderRanAt(i, "scatter")
        => IF Cardinality(LoadedNumeric) < 2
           THEN /\ action = NONE
                /\ description = NONE
                /\ pc = "done"
                /\ Len(log) = i + 1
                /\ filtered_df = NONE
           ELSE /\ IsDict(action)
                /\ action.d["type"] = Str("scatter")
                /\ DOMAIN action.d = {"type", "x", "y"}
                /\ IsStr(action.d["x"]) /\ IsStr(action.d["y"])
                /\ action.d["x"].s \in LoadedNumeric
                /\ action.d["y"].s \in LoadedNumeric
                /\ action.d["x"] # action.d["y"]

\* Scatter was picked on a dataset with one numeric column, after a parse
\* error sent the run to the manual builder.
C15_Witness ==
    /\ pc = "done"
    /\ Len(log) >= 3
    /\ BuilderRanAt(Len(log) - 1, "scatter")
    /\ StError("parse") \in Range(log)
    /\ Cardinality(LoadedNumeric) = 1
    /\ action = NONE

\* C16: the manual builder with line picked returns an action only when the
\* dataset has a numeric column and a time-like column; it returns (None, None)
\* when either is lacking.
C16_LineNeedsTimeColumn ==
    \A i \in 1..Len(log) :
        BuilderRanAt(i, "line")
        => IF LoadedNumeric # {} /\ Len(detect_time_columns(Loaded)) > 0
           THEN action # NONE
           ELSE action = NONE /\ description = NONE

\* detect_time_columns returned from a single call.
DetectReturned == pc = "returned" /\ CalledStage = "detect_time_columns"

\* The positions of the first 10 non-missing values of a column.
FirstTen(col) ==
    LET present == (1..NRows(GivenFrame)) \ MissingAt(col)
    IN  {i \in present : Cardinality({j \in present : j < i}) < 10}

\* A column is to be listed: its type is textual, it has a value, and each of
\* its first 10 values is a date.
TimeLike(col) ==
    /\ GivenFrame.dtypes[col] = "object"
    /\ FirstTen(col) # {}
    /\ \A i \in FirstTen(col) :
           /\ GivenFrame.data[col][i].t = "str"
           /\ GivenFrame.data[col][i].s \in DateFields

\* C17: detect_time_columns lists a column if and only if its type is textual,
\* it has a non-missing value and each of its first 10 non-missing values
\* parses as a date; later values change nothing, and the listed columns come
\* in the order of the dataset's columns.
C17_TimeColumnsBySample ==
    DetectReturned
    => /\ IsList(ret)
       /\ ret.l = [i \in 1..Len(ret.l) |->
                     Str(SelectSeq(GivenFrame.columns, TimeLike)[i])]
       /\ Len(ret.l) = Len(SelectSeq(GivenFrame.columns, TimeLike))

\* A column whose eleventh value is no date was listed, and a column whose
\* tenth value is no date was not.
C17_Witness ==
    /\ DetectReturned
    /\ NRows(GivenFrame) = 11
    /\ GivenFrame.data["when"][11] = Str("abc")
    /\ GivenFrame.data["seen"][10] = Str("abc")
    /\ ret = List(<<Str("when")>>)

\* The parser accepted the response of the run: the action of the run is the
\* one it returned.
Accepted ==
    /\ Call("parse_llm_response") \in Range(log)
    /\ StError("parse") \notin Range(log)

\* C18: an action the parser accepted is routed by main to the producer of its
\* type: summarize, in any letter case, to generate_summary_statistics, any
\* other through prepare_data_for_visualization to generate_visualization; and
\* it never ends in an "unknown action type" or "not supported" error.
C18_AcceptedRouted ==
    (pc = "done" /\ Accepted /\ StError("filter") \notin Range(log))
    => /\ IF TypeOf(action) = "summarize"
          THEN /\ Call("generate_summary_statistics") \in Range(log)
               /\ Call("prepare_data_for_visualization") \notin Range(log)
               /\ Call("generate_visualization") \notin Range(log)
          ELSE /\ Call("prepare_data_for_visualization") \in Range(log)
               /\ Call("generate_summary_statistics") \notin Range(log)
       /\ ret.error # NONE
          => ret.error.fmt \notin {"Unknown action type: {}",
                                   "Visualization type '{}' not supported."}

\* The response is an object in the format the prompt states: an action with
\* a type and, under "parameters", the settings of that type, the required
\* ones among them.
FollowsPrompt ==
    /\ IsObject(response_text)
    /\ "action" \in DOMAIN response_text[2].v
    /\ LET a == response_text[2].v["action"]
       IN  /\ IsDict(a)
           /\ DOMAIN a.d = {"type", "parameters"}
           /\ IsStr(a.d["type"])
           /\ TypeOf(a) \in ActionTypes
           /\ IsDict(a.d["parameters"])
           /\ RequiredParams(a) \subseteq DOMAIN a.d["parameters"].d

\* C19: a response in the format the prompt states is accepted by the parser
\* without error, and the action returned holds the required parameters where
\* prepare_data_for_visualization reads them, at the top of the action.
C19_PromptFormatAccepted ==
    (ParseReturned /\ FollowsPrompt)
    => /\ ret.error = NONE
       /\ ret.action = response_text[2].v["action"]
       /\ RequiredParams(ret.action) \subseteq DOMAIN ret.action.d

====
